---- MODULE Spec2Model ----
(***************************************************************************)
(* PATCH /items/{id}: the handler ItemHandler.PatchItem, the usecase       *)
(* itemUsecase.PatchItem and the validator validateUpdateRequest, run      *)
(* against a storage repository (find / update, each call atomic).         *)
(*                                                                         *)
(* Conventions.                                                            *)
(*  - A Go string is a run of one character: [c |-> char, n |-> count].    *)
(*    Go's len() counts bytes, so len = Width(c) * n.                      *)
(*  - A Go int / JSON number is [hi, lo] (value hi * 2^53 + lo), a JSON    *)
(*    number literal also carries half (value + 0.5).                      *)
(*  - An error text is a sequence of pieces; the separators ": " and ", "  *)
(*    are pieces of their own, every other piece contains neither.         *)
(***************************************************************************)
EXTENDS Integers, Sequences, FiniteSets, TLC

\* ------------------------------------------------------------------------
\* Program constants
maxNameLength == 100
maxBrandLength == 100
minPrice == 0

\* Bounds of the model
NumReqs == 2
MaxTime == 2

Reqs == 1..NumReqs
ItemIds == {1, 2}

\* ------------------------------------------------------------------------
\* Go strings
Str(c, n) == [c |-> c, n |-> n]
EmptyStr == Str("", 0)
Width(c) == IF c = "U+6642" THEN 3 ELSE 1
\* len(s): the number of bytes of the UTF-8 encoding
len(s) == Width(s.c) * s.n
\* the number of characters (runes)
RuneCount(s) == s.n

\* Go ints
IntV(v) == [hi |-> 0, lo |-> v]
Big(d) == [hi |-> 1, lo |-> d]
IntLess(a, b) == a.hi < b.hi \/ (a.hi = b.hi /\ a.lo < b.lo)

\* ------------------------------------------------------------------------
\* JSON values of a request body
Absent == [t |-> "absent"]
JNull == [t |-> "null"]
JStr(s) == [t |-> "str", s |-> s]
JNum(hi, lo, half) == [t |-> "num", hi |-> hi, lo |-> lo, half |-> half]

fieldID == "id"
fieldCreatedAt == "created_at"
fieldUpdatedAt == "updated_at"
Keys == {fieldID, fieldCreatedAt, fieldUpdatedAt, "name", "brand", "purchase_price"}
EmptyKV == [k \in Keys |-> Absent]

ShortName == Str("n", 12)
ShortBrand == Str("b", 9)
TimeText == Str("t", 20)

NameValues ==
    {Absent, JNull, JNum(0, 123, FALSE), JStr(EmptyStr), JStr(ShortName),
     JStr(Str("x", maxNameLength)), JStr(Str("x", maxNameLength + 1)),
     JStr(Str("U+6642", 34))}
BrandValues ==
    {Absent, JStr(EmptyStr), JStr(ShortBrand),
     JStr(Str("y", maxBrandLength + 1)), JStr(Str("U+6642", 34))}
PriceValues ==
    {Absent, JNull, JStr(ShortName), JNum(0, 0, FALSE), JNum(0, 2000, FALSE),
     JNum(0, -100, FALSE), JNum(0, 1, TRUE), JNum(1, 1, FALSE)}
IdValues == {Absent, JNum(0, 999, FALSE), JNull}
CreatedAtValues == {Absent, JStr(TimeText)}
UpdatedAtValues == {Absent, JStr(TimeText)}

Obj(i, c, u, n, b, p) ==
    [k \in Keys |->
        CASE k = fieldID -> i
          [] k = fieldCreatedAt -> c
          [] k = fieldUpdatedAt -> u
          [] k = "name" -> n
          [] k = "brand" -> b
          [] k = "purchase_price" -> p]

\* A request body: the kind of its first JSON value, the members of that value
\* when it is an object, and whether more text follows the value.
Body(kind, kv, trailing) == [kind |-> kind, kv |-> kv, trailing |-> trailing]

ObjectBodies ==
    {Body("object", Obj(i, c, u, n, b, p), FALSE) :
        i \in IdValues, c \in CreatedAtValues, u \in UpdatedAtValues,
        n \in NameValues, b \in BrandValues, p \in PriceValues}
NonObjectKinds == {"null", "array", "string", "number", "empty", "malformed"}
NonObjectBodies == {Body(k, EmptyKV, FALSE) : k \in NonObjectKinds}
ProbeObjects ==
    {EmptyKV,
     Obj(Absent, Absent, Absent, JStr(ShortName), Absent, Absent),
     Obj(JNum(0, 999, FALSE), Absent, Absent, JStr(ShortName), Absent, Absent),
     Obj(Absent, Absent, Absent, JStr(EmptyStr), Absent, JNum(0, -100, FALSE))}
TrailingBodies == {Body("object", kv, TRUE) : kv \in ProbeObjects}
ProbeBodies ==
    NonObjectBodies \cup TrailingBodies \cup {Body("object", kv, FALSE) : kv \in ProbeObjects}
Bodies == ObjectBodies \cup NonObjectBodies \cup TrailingBodies

\* Path identifiers, as the characters of the URL parameter
StoredPaths == {<<"1">>, <<"2">>}
OtherPaths ==
    {<<>>, <<"0">>, <<"-", "1">>, <<"+", "1">>, <<"a", "b", "c">>, <<"1", ".", "5">>,
     <<"1", "x">>,
     <<"9", "9", "9", "9", "9", "9", "9", "9", "9", "9",
       "9", "9", "9", "9", "9", "9", "9", "9", "9", "9">>}
Paths == StoredPaths \cup OtherPaths

\* The requests a client sends
Requests ==
    {[path |-> p, body |-> b] : p \in StoredPaths, b \in Bodies}
    \cup {[path |-> p, body |-> b] : p \in OtherPaths, b \in ProbeBodies}

\* ------------------------------------------------------------------------
\* strconv.ParseInt(idStr, 10, 64) behind parseItemID
Digits == {"0", "1", "2", "3", "4", "5", "6", "7", "8", "9"}
DigitVal(c) ==
    CASE c = "0" -> 0 [] c = "1" -> 1 [] c = "2" -> 2 [] c = "3" -> 3 [] c = "4" -> 4
      [] c = "5" -> 5 [] c = "6" -> 6 [] c = "7" -> 7 [] c = "8" -> 8 [] c = "9" -> 9
IsDigits(s) == Len(s) > 0 /\ \A i \in 1..Len(s) : s[i] \in Digits

RECURSIVE StripZeros(_)
StripZeros(s) == IF Len(s) > 1 /\ s[1] = "0" THEN StripZeros(Tail(s)) ELSE s

RECURSIVE DecVal(_)
DecVal(s) == IF s = <<>> THEN 0 ELSE DecVal(SubSeq(s, 1, Len(s) - 1)) * 10 + DigitVal(s[Len(s)])

\* the digits of 2^63 - 1 and the lexicographic order on digit strings of equal length
MaxInt64Digits ==
    <<"9", "2", "2", "3", "3", "7", "2", "0", "3", "6",
      "8", "5", "4", "7", "7", "5", "8", "0", "7">>
RECURSIVE DigitsLeq(_, _)
DigitsLeq(a, b) ==
    IF a = <<>> THEN TRUE
    ELSE IF DigitVal(a[1]) # DigitVal(b[1]) THEN DigitVal(a[1]) < DigitVal(b[1])
    ELSE DigitsLeq(Tail(a), Tail(b))
\* magnitude m fits int64 (the one extra negative value -2^63 is not among the inputs)
InRange(m) ==
    \/ Len(m) < Len(MaxInt64Digits)
    \/ Len(m) = Len(MaxInt64Digits) /\ DigitsLeq(m, MaxInt64Digits)

ParseFail == [ok |-> FALSE, id |-> 0]

RECURSIVE LeadingDigits(_)
LeadingDigits(s) ==
    IF s # <<>> /\ s[1] \in Digits THEN <<s[1]>> \o LeadingDigits(Tail(s)) ELSE <<>>
\* a parse that stops at the first character that is no digit and keeps what it read
parseItemIDPrefix(idStr) ==
    IF LeadingDigits(idStr) = <<>> THEN ParseFail
    ELSE IF ~InRange(StripZeros(LeadingDigits(idStr))) THEN ParseFail
    ELSE [ok |-> TRUE, id |-> DecVal(StripZeros(LeadingDigits(idStr)))]
\* parseItemID: "" is a syntax error; otherwise an optional sign and decimal digits
\* that fit in 64 bits
parseItemID(idStr) ==
    IF idStr = <<>> THEN ParseFail
    ELSE LET signed == idStr[1] \in {"+", "-"}
             digits == IF signed THEN Tail(idStr) ELSE idStr
         IN  IF ~IsDigits(digits) THEN ParseFail
             ELSE IF ~InRange(StripZeros(digits)) THEN ParseFail
             ELSE [ok |-> TRUE,
                   id |-> IF idStr[1] = "-" THEN 0 - DecVal(StripZeros(digits))
                          ELSE DecVal(StripZeros(digits))]

\* ------------------------------------------------------------------------
\* encoding/json

\* A JSON number stored in an interface{} is a float64: above 2^53 only even
\* integers are representable, ties go to the even mantissa.
ToFloat64(v) ==
    IF v.t # "num" \/ v.hi = 0 THEN v
    ELSE LET q == v.lo \div 2
         IN  JNum(v.hi, IF v.lo % 2 = 0 THEN v.lo
                        ELSE IF q % 2 = 0 THEN 2 * q ELSE 2 * (q + 1), FALSE)

DecodeFail == [ok |-> FALSE, isNil |-> TRUE, kv |-> EmptyKV]
\* the first decode made into the typed request: a wrongly typed member is an error
DecodeBodyTyped(b) ==
    CASE b.kind = "object" ->
            IF \/ b.kv["name"].t \in {"num"}
               \/ b.kv["brand"].t \in {"num"}
               \/ b.kv["purchase_price"].t = "str"
               \/ (b.kv["purchase_price"].t = "num" /\ b.kv["purchase_price"].half)
            THEN DecodeFail
            ELSE [ok |-> TRUE, isNil |-> FALSE, kv |-> [k \in Keys |-> ToFloat64(b.kv[k])]]
      [] b.kind = "null" -> [ok |-> TRUE, isNil |-> TRUE, kv |-> EmptyKV]
      [] OTHER -> DecodeFail
\* json.NewDecoder(body).Decode(&requestBody), requestBody a map[string]interface{}:
\* reads the first JSON value only (text after it is left unread); null sets the
\* map to nil; any other non-object value, no value, or bad syntax is an error.
DecodeBody(b) ==
    CASE b.kind = "object" ->
            [ok |-> TRUE, isNil |-> FALSE, kv |-> [k \in Keys |-> ToFloat64(b.kv[k])]]
      [] b.kind = "null" -> [ok |-> TRUE, isNil |-> TRUE, kv |-> EmptyKV]
      [] OTHER -> DecodeFail

\* the permutations of a finite set
Perms(S) ==
    {f \in [1..Cardinality(S) -> S] : \A i, j \in 1..Cardinality(S) : f[i] = f[j] => i = j}

Msg(m) == <<m>>
immutableFields ==
    [k \in {fieldID, fieldCreatedAt, fieldUpdatedAt} |->
        CASE k = fieldID -> Msg("id is immutable")
          [] k = fieldCreatedAt -> Msg("created_at is immutable")
          [] k = fieldUpdatedAt -> Msg("updated_at is immutable")]

\* a guard that reads the value and takes null for "not there"
checkImmutableFieldsNonNull(requestBody) ==
    Perms({immutableFields[k] : k \in {f \in DOMAIN immutableFields :
                                         requestBody.kv[f] \notin {Absent, JNull}}})
\* checkImmutableFields: the lists the function can return. It ranges over a Go
\* map, whose iteration order is unspecified and differs from run to run, so every
\* order of the messages of the keys present is a possible result.
checkImmutableFields(requestBody) ==
    Perms({immutableFields[k] : k \in {f \in DOMAIN immutableFields :
                                         requestBody.kv[f] # Absent}})

NilPtr == [t |-> "nil"]
Ptr(v) == [t |-> "ptr", v |-> v]
UpdateItemRequest(n, b, p) == [Name |-> n, Brand |-> b, PurchasePrice |-> p]

\* json.Unmarshal of one member into a *string field
BindString(v) ==
    CASE v.t \in {"absent", "null"} -> [ok |-> TRUE, p |-> NilPtr]
      [] v.t = "str" -> [ok |-> TRUE, p |-> Ptr(v.s)]
      [] OTHER -> [ok |-> FALSE, p |-> NilPtr]
\* json.Unmarshal of one member into a *int field: the float64 was marshalled
\* with its shortest decimal form, which is an int literal only without fraction
BindInt(v) ==
    CASE v.t \in {"absent", "null"} -> [ok |-> TRUE, p |-> NilPtr]
      [] v.t = "num" /\ ~v.half -> [ok |-> TRUE, p |-> Ptr([hi |-> v.hi, lo |-> v.lo])]
      [] OTHER -> [ok |-> FALSE, p |-> NilPtr]

\* json.Marshal(requestBody) then json.Unmarshal(bodyBytes, &req): a nil map is
\* marshalled as null, which leaves req untouched; members that are not fields of
\* UpdateItemRequest are dropped
BindRequest(requestBody) ==
    LET n == BindString(requestBody.kv["name"])
        b == BindString(requestBody.kv["brand"])
        p == BindInt(requestBody.kv["purchase_price"])
    IN  IF requestBody.isNil
        THEN [ok |-> TRUE, req |-> UpdateItemRequest(NilPtr, NilPtr, NilPtr)]
        ELSE [ok |-> n.ok /\ b.ok /\ p.ok, req |-> UpdateItemRequest(n.p, b.p, p.p)]

\* ------------------------------------------------------------------------
\* Errors: a kind (what errors.Is finds in the chain) and the text of Error()
Err(kind, text) == [kind |-> kind, text |-> text]
NoErr == Err("none", <<>>)
ErrInvalidInput == Err("InvalidInput", Msg("invalid input"))
ErrItemNotFound == Err("NotFound", Msg("item not found"))
RepoNotFound == Err("NotFound", Msg("item not found"))
RepoFailure == Err("Other", Msg("storage failure"))
IsNotFoundError(err) == err.kind = "NotFound"
IsValidationError(err) == err.kind = "InvalidInput"
\* fmt.Errorf("<prefix>: %w", err) and fmt.Errorf("%w: %s", err, text)
WrapPrefix(prefix, err) == Err(err.kind, Msg(prefix) \o <<": ">> \o err.text)
WrapSuffix(err, text) == Err(err.kind, err.text \o <<": ">> \o text)

\* strings.Join, strings.Contains, strings.SplitN(s, sep, 2), strings.Split
RECURSIVE Join(_, _)
Join(list, sep) ==
    IF list = <<>> THEN <<>>
    ELSE IF Len(list) = 1 THEN list[1]
    ELSE list[1] \o <<sep>> \o Join(Tail(list), sep)
Contains(s, sep) == \E i \in 1..Len(s) : s[i] = sep
FirstIndex(s, sep) == CHOOSE i \in 1..Len(s) : s[i] = sep /\ \A j \in 1..(i - 1) : s[j] # sep
SplitN2(s, sep) ==
    IF Contains(s, sep)
    THEN <<SubSeq(s, 1, FirstIndex(s, sep) - 1), SubSeq(s, FirstIndex(s, sep) + 1, Len(s))>>
    ELSE <<s>>
RECURSIVE Split(_, _)
Split(s, sep) ==
    IF Contains(s, sep)
    THEN <<SubSeq(s, 1, FirstIndex(s, sep) - 1)>>
         \o Split(SubSeq(s, FirstIndex(s, sep) + 1, Len(s)), sep)
    ELSE <<s>>

\* ------------------------------------------------------------------------
\* Items and the storage repository
Item(id, name, brand, price, created, updated) ==
    [ID |-> id, Name |-> name, Category |-> "watch", Brand |-> brand,
     PurchasePrice |-> price, PurchaseDate |-> "2023-01-01",
     CreatedAt |-> created, UpdatedAt |-> updated]
NoItem == [t |-> "none"]
StoredName == Str("A", 1)
StoredBrand == Str("B", 1)
InitialStore ==
    [i \in ItemIds |-> IF i = 1 THEN Item(1, StoredName, StoredBrand, IntV(100), 0, 0)
                       ELSE NoItem]

RepoResult(err, item) == [err |-> err, item |-> item]
\* find(id): the entity, NotFound, or a failure of the storage
FindByID(st, id) ==
    {IF id \in ItemIds /\ st[id] # NoItem THEN RepoResult(NoErr, st[id])
     ELSE RepoResult(RepoNotFound, NoItem),
     RepoResult(RepoFailure, NoItem)}
\* update(entity): the stored entity, NotFound when no row has its id, or a failure
Update(st, item) ==
    {IF item.ID \in ItemIds /\ st[item.ID] # NoItem THEN RepoResult(NoErr, item)
     ELSE RepoResult(RepoNotFound, NoItem),
     RepoResult(RepoFailure, NoItem)}

\* ------------------------------------------------------------------------
\* itemUsecase.PatchItem

\* a merge that writes every field of the request, the zero value for an absent one
MergeZeroValues(req, item, t) ==
    [item EXCEPT
        !.Name = IF req.Name # NilPtr THEN req.Name.v ELSE EmptyStr,
        !.Brand = IF req.Brand # NilPtr THEN req.Brand.v ELSE EmptyStr,
        !.PurchasePrice = IF req.PurchasePrice # NilPtr THEN req.PurchasePrice.v ELSE IntV(0),
        !.UpdatedAt = t]
\* a merge that leaves updated_at alone when the request changes nothing
MergeNoStampWhenEmpty(req, item, t) ==
    [item EXCEPT
        !.Name = IF req.Name # NilPtr THEN req.Name.v ELSE @,
        !.Brand = IF req.Brand # NilPtr THEN req.Brand.v ELSE @,
        !.PurchasePrice = IF req.PurchasePrice # NilPtr THEN req.PurchasePrice.v ELSE @,
        !.UpdatedAt = IF req = UpdateItemRequest(NilPtr, NilPtr, NilPtr) THEN @ ELSE t]
\* "Apply partial updates" and "Update timestamp", on the fetched entity
Merge(req, item, t) ==
    [item EXCEPT
        !.Name = IF req.Name # NilPtr THEN req.Name.v ELSE @,
        !.Brand = IF req.Brand # NilPtr THEN req.Brand.v ELSE @,
        !.PurchasePrice = IF req.PurchasePrice # NilPtr THEN req.PurchasePrice.v ELSE @,
        !.UpdatedAt = t]

MsgNameRequired == Msg("name is required")
MsgNameTooLong == Msg("name must be 100 characters or less")
MsgBrandRequired == Msg("brand is required")
MsgBrandTooLong == Msg("brand must be 100 characters or less")
MsgPriceTooLow == Msg("purchase_price must be >= 0")

\* the price floor compared the wrong way round
validateUpdateRequestSignSlip(req, item) ==
    (IF req.Name # NilPtr
     THEN IF item.Name = EmptyStr THEN <<MsgNameRequired>>
          ELSE IF len(item.Name) > maxNameLength THEN <<MsgNameTooLong>> ELSE <<>>
     ELSE <<>>)
    \o
    (IF req.Brand # NilPtr
     THEN IF item.Brand = EmptyStr THEN <<MsgBrandRequired>>
          ELSE IF len(item.Brand) > maxBrandLength THEN <<MsgBrandTooLong>> ELSE <<>>
     ELSE <<>>)
    \o
    (IF req.PurchasePrice # NilPtr /\ IntLess(IntV(minPrice), item.PurchasePrice)
     THEN <<MsgPriceTooLow>> ELSE <<>>)

\* every field of the merged item validated, present in req or not
validateWholeItem(req, item) ==
    (IF item.Name = EmptyStr THEN <<MsgNameRequired>>
     ELSE IF len(item.Name) > maxNameLength THEN <<MsgNameTooLong>> ELSE <<>>)
    \o
    (IF item.Brand = EmptyStr THEN <<MsgBrandRequired>>
     ELSE IF len(item.Brand) > maxBrandLength THEN <<MsgBrandTooLong>> ELSE <<>>)
    \o
    (IF IntLess(item.PurchasePrice, IntV(minPrice)) THEN <<MsgPriceTooLow>> ELSE <<>>)

\* validateUpdateRequest: the violations of the fields present in req, read from
\* the merged item, name first, then brand, then purchase_price
validateUpdateRequest(req, item) ==
    (IF req.Name # NilPtr
     THEN IF item.Name = EmptyStr THEN <<MsgNameRequired>>
          ELSE IF len(item.Name) > maxNameLength THEN <<MsgNameTooLong>> ELSE <<>>
     ELSE <<>>)
    \o
    (IF req.Brand # NilPtr
     THEN IF item.Brand = EmptyStr THEN <<MsgBrandRequired>>
          ELSE IF len(item.Brand) > maxBrandLength THEN <<MsgBrandTooLong>> ELSE <<>>
     ELSE <<>>)
    \o
    (IF req.PurchasePrice # NilPtr /\ IntLess(item.PurchasePrice, IntV(minPrice))
     THEN <<MsgPriceTooLow>> ELSE <<>>)

\* the error returned when validation fails
ValidationError(validationErrors) == WrapSuffix(ErrInvalidInput, Join(validationErrors, ", "))
\* every failure of FindByID taken for a missing item
FindErrorAsNotFound(err) == ErrItemNotFound
\* the error returned when FindByID fails
FindError(err) ==
    IF IsNotFoundError(err) THEN ErrItemNotFound ELSE WrapPrefix("failed to retrieve item", err)
\* every failure of Update wrapped, NotFound included
UpdateErrorAlwaysWrapped(err) == WrapPrefix("failed to update item", Err("Other", err.text))
\* the error returned when Update fails
UpdateError(err) ==
    IF IsNotFoundError(err) THEN ErrItemNotFound ELSE WrapPrefix("failed to update item", err)

\* ------------------------------------------------------------------------
\* ItemHandler.PatchItem: responses
Response(status, error, details, item) ==
    [status |-> status, error |-> error, details |-> details, item |-> item]
NoResponse == Response(0, "", <<>>, NoItem)
ErrorResponse(status, error) == Response(status, error, <<>>, NoItem)

\* the list cut at its first ", " only
parseValidationErrorDetailsSplit2(err) ==
    IF Contains(err.text, ": ")
    THEN LET parts == SplitN2(err.text, ": ")
         IN  IF Len(parts) = 2 THEN SplitN2(parts[2], ", ") ELSE <<err.text>>
    ELSE <<err.text>>
\* parseValidationErrorDetails: what follows the first ": " of the error text,
\* split at every ", "; the whole text when it holds no ": "
parseValidationErrorDetails(err) ==
    IF Contains(err.text, ": ")
    THEN LET parts == SplitN2(err.text, ": ")
         IN  IF Len(parts) = 2 THEN Split(parts[2], ", ") ELSE <<err.text>>
    ELSE <<err.text>>

\* the response for an error returned by the usecase
TranslateError(err) ==
    IF IsNotFoundError(err) THEN ErrorResponse(404, "item not found")
    ELSE IF IsValidationError(err)
         THEN Response(400, "validation failed", parseValidationErrorDetails(err), NoItem)
    ELSE ErrorResponse(500, "failed to update item")

\* ------------------------------------------------------------------------
\* State
VARIABLES
    store,      \* the repository: item id -> item or NoItem
    now,        \* the clock read by time.Now()
    pc,         \* per request: "idle", "handler", "find", "update", "done"
    path,       \* per request: the path identifier
    body,       \* per request: the request body
    id,         \* per request: the parsed identifier
    req,        \* per request: the typed UpdateItemRequest
    item,       \* per request: the in-memory entity of the usecase
    snap,       \* per request: the entity as FindByID returned it
    verrs,      \* per request: what validateUpdateRequest returned
    found,      \* per request: outcome of the FindByID call ("none" before it)
    updated,    \* per request: outcome of the Update call ("none" before it)
    resp,       \* per request: the response written
    log,        \* per request: the stages executed, in order
    before,     \* per request: the store when the request arrived
    arrived,    \* per request: the clock when the request arrived
    lastWrite   \* per item id: the request whose Update was stored last (0: none)

vars == <<store, now, pc, path, body, id, req, item, snap, verrs, found, updated,
          resp, log, before, arrived, lastWrite>>

NoRequest == UpdateItemRequest(NilPtr, NilPtr, NilPtr)
NoBody == Body("empty", EmptyKV, FALSE)

Init ==
    /\ store = InitialStore
    /\ now = 1
    /\ pc = [r \in Reqs |-> "idle"]
    /\ path = [r \in Reqs |-> <<>>]
    /\ body = [r \in Reqs |-> NoBody]
    /\ id = [r \in Reqs |-> 0]
    /\ req = [r \in Reqs |-> NoRequest]
    /\ item = [r \in Reqs |-> NoItem]
    /\ snap = [r \in Reqs |-> NoItem]
    /\ verrs = [r \in Reqs |-> <<>>]
    /\ found = [r \in Reqs |-> "none"]
    /\ updated = [r \in Reqs |-> "none"]
    /\ resp = [r \in Reqs |-> NoResponse]
    /\ log = [r \in Reqs |-> <<>>]
    /\ before = [r \in Reqs |-> InitialStore]
    /\ arrived = [r \in Reqs |-> 0]
    /\ lastWrite = [i \in ItemIds |-> 0]

Outcome(err) == IF err = NoErr THEN "ok" ELSE IF IsNotFoundError(err) THEN "notfound" ELSE "error"

\* c.JSON(...): the request ends with response rsp after running `stages`
Finish(r, rsp, stages) ==
    /\ resp' = [resp EXCEPT ![r] = rsp]
    /\ log' = [log EXCEPT ![r] = @ \o stages \o <<"Respond">>]
    /\ pc' = [pc EXCEPT ![r] = "done"]

\* the clock advances
Tick ==
    /\ now < MaxTime
    /\ now' = now + 1
    /\ UNCHANGED <<store, pc, path, body, id, req, item, snap, verrs, found, updated,
                   resp, log, before, arrived, lastWrite>>

\* another client deletes item i (itemUsecase.DeleteItem)
Delete(i) ==
    /\ store[i] # NoItem
    /\ store' = [store EXCEPT ![i] = NoItem]
    /\ UNCHANGED <<now, pc, path, body, id, req, item, snap, verrs, found, updated,
                   resp, log, before, arrived, lastWrite>>

\* a PATCH request arrives
Arrive(r, requests) ==
    /\ pc[r] = "idle"
    /\ \E q \in requests :
          /\ path' = [path EXCEPT ![r] = q.path]
          /\ body' = [body EXCEPT ![r] = q.body]
    /\ pc' = [pc EXCEPT ![r] = "handler"]
    /\ before' = [before EXCEPT ![r] = store]
    /\ arrived' = [arrived EXCEPT ![r] = now]
    /\ UNCHANGED <<store, now, id, req, item, snap, verrs, found, updated, resp, log,
                   lastWrite>>

\* ItemHandler.PatchItem up to the call of FindByID: parse the id, decode the
\* body, guard the immutable fields, bind the typed request, enter the usecase
Handle(r) ==
    /\ pc[r] = "handler"
    /\ LET p == parseItemID(path[r])
           d == DecodeBody(body[r])
           b == BindRequest(d)
       IN  IF ~p.ok
           THEN /\ Finish(r, ErrorResponse(400, "invalid item ID"), <<"ParseID">>)
                /\ UNCHANGED <<id, req>>
           ELSE IF ~d.ok
           THEN /\ Finish(r, ErrorResponse(400, "invalid request format"),
                          <<"ParseID", "Decode">>)
                /\ id' = [id EXCEPT ![r] = p.id]
                /\ UNCHANGED req
           ELSE \E immutableErrors \in checkImmutableFields(d) :
                IF Len(immutableErrors) > 0
                THEN /\ Finish(r, Response(400, "validation failed", immutableErrors, NoItem),
                               <<"ParseID", "Decode", "Guard">>)
                     /\ id' = [id EXCEPT ![r] = p.id]
                     /\ UNCHANGED req
                ELSE IF ~b.ok
                THEN /\ Finish(r, ErrorResponse(400, "invalid request format"),
                               <<"ParseID", "Decode", "Guard", "Bind">>)
                     /\ id' = [id EXCEPT ![r] = p.id]
                     /\ UNCHANGED req
                ELSE IF p.id <= 0
                THEN /\ Finish(r, TranslateError(ErrInvalidInput),
                               <<"ParseID", "Decode", "Guard", "Bind", "Usecase">>)
                     /\ id' = [id EXCEPT ![r] = p.id]
                     /\ req' = [req EXCEPT ![r] = b.req]
                ELSE /\ pc' = [pc EXCEPT ![r] = "find"]
                     /\ log' = [log EXCEPT ![r] =
                                  @ \o <<"ParseID", "Decode", "Guard", "Bind", "Usecase">>]
                     /\ id' = [id EXCEPT ![r] = p.id]
                     /\ req' = [req EXCEPT ![r] = b.req]
                     /\ UNCHANGED resp
    /\ UNCHANGED <<store, now, path, body, item, snap, verrs, found, updated, before, arrived,
                   lastWrite>>

\* itemUsecase.PatchItem from FindByID to the call of Update: fetch, merge, stamp
\* updated_at, validate
Find(r) ==
    /\ pc[r] = "find"
    /\ \E res \in FindByID(store, id[r]) :
          /\ found' = [found EXCEPT ![r] = Outcome(res.err)]
          /\ IF res.err # NoErr
             THEN /\ Finish(r, TranslateError(FindError(res.err)), <<"Fetch">>)
                  /\ UNCHANGED <<item, snap, verrs>>
             ELSE LET merged == Merge(req[r], res.item, now)
                      validationErrors == validateUpdateRequest(req[r], merged)
                  IN  /\ snap' = [snap EXCEPT ![r] = res.item]
                      /\ item' = [item EXCEPT ![r] = merged]
                      /\ verrs' = [verrs EXCEPT ![r] = validationErrors]
                      /\ IF Len(validationErrors) > 0
                         THEN Finish(r, TranslateError(ValidationError(validationErrors)),
                                     <<"Fetch", "Merge", "Validate">>)
                         ELSE /\ pc' = [pc EXCEPT ![r] = "update"]
                              /\ log' = [log EXCEPT ![r] =
                                           @ \o <<"Fetch", "Merge", "Validate">>]
                              /\ UNCHANGED resp
    /\ UNCHANGED <<store, now, path, body, id, req, updated, before, arrived, lastWrite>>

\* itemUsecase.PatchItem from Update to the response
Persist(r) ==
    /\ pc[r] = "update"
    /\ \E res \in Update(store, item[r]) :
          /\ updated' = [updated EXCEPT ![r] = Outcome(res.err)]
          /\ IF res.err # NoErr
             THEN /\ Finish(r, TranslateError(UpdateError(res.err)), <<"Persist">>)
                  /\ UNCHANGED <<store, lastWrite>>
             ELSE /\ store' = [store EXCEPT ![res.item.ID] = res.item]
                  /\ lastWrite' = [lastWrite EXCEPT ![res.item.ID] = r]
                  /\ Finish(r, Response(200, "", <<>>, res.item), <<"Persist">>)
    /\ UNCHANGED <<now, path, body, id, req, item, snap, verrs, found, before, arrived>>

\* One client sending any request, the clock, and a concurrent deletion
Next ==
    \/ Tick
    \/ \E i \in ItemIds : Delete(i)
    \/ Arrive(1, Requests)
    \/ Handle(1)
    \/ Find(1)
    \/ Persist(1)

Spec == Init /\ [][Next]_vars

\* A store holding a row written before the field rules applied (empty name,
\* negative price), and one client patching it
LegacyStore ==
    [i \in ItemIds |-> IF i = 1 THEN Item(1, EmptyStr, StoredBrand, IntV(-5), 0, 0)
                       ELSE NoItem]
InitLegacy ==
    /\ store = LegacyStore
    /\ now = 1
    /\ pc = [r \in Reqs |-> "idle"]
    /\ path = [r \in Reqs |-> <<>>]
    /\ body = [r \in Reqs |-> NoBody]
    /\ id = [r \in Reqs |-> 0]
    /\ req = [r \in Reqs |-> NoRequest]
    /\ item = [r \in Reqs |-> NoItem]
    /\ snap = [r \in Reqs |-> NoItem]
    /\ verrs = [r \in Reqs |-> <<>>]
    /\ found = [r \in Reqs |-> "none"]
    /\ updated = [r \in Reqs |-> "none"]
    /\ resp = [r \in Reqs |-> NoResponse]
    /\ log = [r \in Reqs |-> <<>>]
    /\ before = [r \in Reqs |-> LegacyStore]
    /\ arrived = [r \in Reqs |-> 0]
    /\ lastWrite = [i \in ItemIds |-> 0]
LegacyRequests ==
    {[path |-> <<"1">>, body |-> Body("object", Obj(Absent, Absent, Absent, n, b, p), FALSE)] :
        n \in NameValues, b \in BrandValues, p \in PriceValues}
NextLegacy ==
    \/ Tick
    \/ \E i \in ItemIds : Delete(i)
    \/ Arrive(1, LegacyRequests)
    \/ Handle(1)
    \/ Find(1)
    \/ Persist(1)
SpecLegacy == InitLegacy /\ [][NextLegacy]_vars

\* Several clients at once, each sending one PATCH; their handlers run as
\* goroutines whose storage calls interleave. Requests are numbered in the order
\* of their arrival.
ConcurrentBodies ==
    {Body("object", Obj(Absent, Absent, Absent, JStr(ShortName), Absent, Absent), FALSE),
     Body("object", Obj(Absent, Absent, Absent, Absent, Absent, JNum(0, 2000, FALSE)), FALSE),
     Body("object", Obj(Absent, Absent, Absent, Absent, Absent, JNum(0, -100, FALSE)), FALSE)}
ConcurrentRequests ==
    {[path |-> <<"1">>, body |-> b] : b \in ConcurrentBodies}
    \cup {[path |-> <<"2">>, body |-> Body("object", EmptyKV, FALSE)]}

ArriveInOrder(r) ==
    /\ \A q \in Reqs : q < r => pc[q] # "idle"
    /\ Arrive(r, ConcurrentRequests)

NextConc ==
    \/ Tick
    \/ \E r \in Reqs : ArriveInOrder(r)
    \/ \E r \in Reqs : Handle(r)
    \/ \E r \in Reqs : Find(r)
    \/ \E r \in Reqs : Persist(r)

SpecConc == Init /\ [][NextConc]_vars

\* One client whose handler goroutine keeps running: a request that can take its
\* next step takes it (the storage calls return)
FairRequests ==
    {[path |-> p, body |-> b] : p \in Paths, b \in ProbeBodies \cup ConcurrentBodies}
NextFair ==
    \/ Tick
    \/ \E i \in ItemIds : Delete(i)
    \/ Arrive(1, FairRequests)
    \/ Handle(1)
    \/ Find(1)
    \/ Persist(1)
SpecFair ==
    /\ Init
    /\ [][NextFair]_vars
    /\ WF_vars(Handle(1))
    /\ WF_vars(Find(1))
    /\ WF_vars(Persist(1))

\* ------------------------------------------------------------------------
\* Properties

Done(r) == pc[r] = "done"
PathOK(r) == parseItemID(path[r]).ok
PositiveId(r) == PathOK(r) /\ parseItemID(path[r]).id > 0
IsObject(r) == body[r].kind = "object"
ProtectedKeys == <<fieldID, fieldCreatedAt, fieldUpdatedAt>>
HasProtected(r) == \E i \in 1..Len(ProtectedKeys) : body[r].kv[ProtectedKeys[i]] # Absent
\* "<field> is immutable" for each protected key of the payload, in the order
\* id, created_at, updated_at
ExpectedImmutable(r) ==
    LET Present(k) == body[r].kv[k] # Absent
        keys == SelectSeq(ProtectedKeys, Present)
    IN  [i \in 1..Len(keys) |-> immutableFields[keys[i]]]
Ran(r, stage) == \E i \in 1..Len(log[r]) : log[r][i] = stage
Times(r, stage) == Cardinality({i \in 1..Len(log[r]) : log[r][i] = stage})
\* what is still stored is what was stored when the request arrived
StoreUntouched(r) == \A i \in ItemIds : store[i] # NoItem => store[i] = before[r][i]
NoStorageCall(r) == found[r] = "none" /\ updated[r] = "none" /\ ~Ran(r, "Fetch") /\ ~Ran(r, "Persist")

\* C1: a payload with protected keys (valid path id) is answered 400 "validation
\* failed" with exactly one "<field> is immutable" per protected key present, always
\* in the order id, created_at, updated_at.
C1_ImmutableDetailsInFixedOrder ==
    \A r \in Reqs :
        (Done(r) /\ PathOK(r) /\ IsObject(r) /\ HasProtected(r))
        => resp[r] = Response(400, "validation failed", ExpectedImmutable(r), NoItem)

\* C2: a protected key in the payload, whatever its value (null too) and whatever
\* keys come with it, ends the request as "validation failed" without calling the
\* usecase, the storage find or the storage update, and the stored item is unchanged.
C2_GuardHasNoSideEffects ==
    \A r \in Reqs :
        (Done(r) /\ PathOK(r) /\ IsObject(r) /\ HasProtected(r))
        => /\ resp[r].status = 400
           /\ resp[r].error = "validation failed"
           /\ ~Ran(r, "Usecase")
           /\ NoStorageCall(r)
           /\ item[r] = NoItem
           /\ StoreUntouched(r)
C2_Witness ==
    \E r \in Reqs :
        /\ Done(r)
        /\ body[r].kv[fieldID] = JNull
        /\ body[r].kv["name"] # Absent
        /\ body[r].kv["purchase_price"] = JStr(ShortName)
        /\ resp[r].error = "validation failed"

\* C3: after a successful PATCH the persisted and returned entity has name, brand
\* and purchase_price equal to the request's value where the request has the field
\* and to the fetched snapshot's value where it has not; id, category,
\* purchase_date and created_at are the snapshot's.
C3_MergedEntityEqualsRequest ==
    \A r \in Reqs :
        (Done(r) /\ resp[r].status = 200)
        => LET e == resp[r].item
               kv == body[r].kv
           IN  /\ store[id[r]] # NoItem => store[id[r]] = e
               /\ kv["name"] = Absent => e.Name = snap[r].Name
               /\ kv["name"] \notin {Absent, JNull} => JStr(e.Name) = kv["name"]
               /\ kv["brand"] = Absent => e.Brand = snap[r].Brand
               /\ kv["brand"] \notin {Absent, JNull} => JStr(e.Brand) = kv["brand"]
               /\ kv["purchase_price"] = Absent => e.PurchasePrice = snap[r].PurchasePrice
               /\ kv["purchase_price"] \notin {Absent, JNull}
                  => JNum(e.PurchasePrice.hi, e.PurchasePrice.lo, FALSE) = kv["purchase_price"]
               /\ e.ID = snap[r].ID
               /\ e.Category = snap[r].Category
               /\ e.PurchaseDate = snap[r].PurchaseDate
               /\ e.CreatedAt = snap[r].CreatedAt

\* C4: when validation finds violations, the 400 "validation failed" response lists
\* every one of them, name before brand before purchase_price, and the list is
\* element for element the one validateUpdateRequest returned.
FieldRank(m) ==
    CASE m \in {MsgNameRequired, MsgNameTooLong} -> 1
      [] m \in {MsgBrandRequired, MsgBrandTooLong} -> 2
      [] m = MsgPriceTooLow -> 3
      [] OTHER -> 0
C4_DetailsMirrorValidator ==
    \A r \in Reqs :
        (Done(r) /\ Len(verrs[r]) > 0)
        => LET d == resp[r].details
               In(m) == \E i \in 1..Len(d) : d[i] = m
           IN  /\ resp[r].status = 400
               /\ resp[r].error = "validation failed"
               /\ d = verrs[r]
               /\ \A i \in 1..Len(d) : FieldRank(d[i]) > 0
               /\ \A i, j \in 1..Len(d) : i < j => FieldRank(d[i]) < FieldRank(d[j])
               /\ body[r].kv["name"] = JStr(EmptyStr) => In(MsgNameRequired)
               /\ body[r].kv["brand"] = JStr(EmptyStr) => In(MsgBrandRequired)
               /\ body[r].kv["purchase_price"] = JNum(0, -100, FALSE) => In(MsgPriceTooLow)
C4_Witness ==
    \E r \in Reqs :
        /\ Done(r)
        /\ body[r].kv["name"] = JStr(EmptyStr)
        /\ body[r].kv["brand"] = JStr(EmptyStr)
        /\ body[r].kv["purchase_price"] = JNum(0, -100, FALSE)
        /\ resp[r].details = <<MsgNameRequired, MsgBrandRequired, MsgPriceTooLow>>

\* C5 (as claimed): any payload with purchase_price < 0 (sent to a positive id) is
\* answered 400 with details exactly ["purchase_price must be >= 0"].
NegativePrice(r) ==
    /\ IsObject(r)
    /\ body[r].kv["purchase_price"].t = "num"
    /\ body[r].kv["purchase_price"].hi = 0
    /\ body[r].kv["purchase_price"].lo < 0
C5_NegativePriceAlwaysAlone ==
    \A r \in Reqs :
        (Done(r) /\ PositiveId(r) /\ NegativePrice(r))
        => resp[r] = Response(400, "validation failed", <<MsgPriceTooLow>>, NoItem)
\* C5 (amended): a payload with an integer purchase_price < 0, no protected key and
\* no other violation (name and brand absent, null, or non-empty strings of at most
\* 100 bytes), sent to a positive id whose item the storage finds, is answered 400
\* "validation failed" with details exactly ["purchase_price must be >= 0"].
OtherFieldFine(v, max) ==
    \/ v \in {Absent, JNull}
    \/ v.t = "str" /\ v.s # EmptyStr /\ len(v.s) <= max
C5_NegativePriceAmended ==
    \A r \in Reqs :
        (/\ Done(r) /\ PathOK(r) /\ NegativePrice(r)
         /\ ~body[r].kv["purchase_price"].half
         /\ ~HasProtected(r)
         /\ OtherFieldFine(body[r].kv["name"], maxNameLength)
         /\ OtherFieldFine(body[r].kv["brand"], maxBrandLength)
         /\ found[r] = "ok")
        => /\ resp[r] = Response(400, "validation failed", <<MsgPriceTooLow>>, NoItem)
           /\ updated[r] = "none"
C5_Witness ==
    \E r \in Reqs :
        /\ Done(r)
        /\ body[r].kv = Obj(Absent, Absent, Absent, JStr(ShortName), Absent, JNum(0, -100, FALSE))
        /\ found[r] = "ok"
        /\ resp[r].details = <<MsgPriceTooLow>>

\* C6: a present name (brand) gets "<field> is required" exactly when it is empty
\* and "<field> must be 100 characters or less" exactly when it has more than 100
\* characters, counted as characters and not as encoded bytes.
C6_LengthCountsCharacters ==
    \A r \in Reqs :
        (Done(r) /\ found[r] = "ok")
        => LET In(m) == \E i \in 1..Len(verrs[r]) : verrs[r][i] = m
           IN  /\ req[r].Name # NilPtr
                  => /\ In(MsgNameRequired) <=> RuneCount(req[r].Name.v) = 0
                     /\ In(MsgNameTooLong) <=> RuneCount(req[r].Name.v) > maxNameLength
               /\ req[r].Brand # NilPtr
                  => /\ In(MsgBrandRequired) <=> RuneCount(req[r].Brand.v) = 0
                     /\ In(MsgBrandTooLong) <=> RuneCount(req[r].Brand.v) > maxBrandLength

\* C7: PATCH {} on an existing item (find and update succeed) answers 200, performs
\* one storage update, sets updated_at to the time of the request and leaves every
\* other field as fetched.
C7_EmptyPatchRefreshesUpdatedAt ==
    \A r \in Reqs :
        (/\ Done(r) /\ PathOK(r)
         /\ body[r] = Body("object", EmptyKV, FALSE)
         /\ found[r] = "ok" /\ updated[r] = "ok")
        => /\ resp[r].status = 200
           /\ Times(r, "Persist") = 1
           /\ resp[r].item.UpdatedAt >= arrived[r]
           /\ resp[r].item.UpdatedAt <= now
           /\ resp[r].item.UpdatedAt > snap[r].UpdatedAt
           /\ [resp[r].item EXCEPT !.UpdatedAt = snap[r].UpdatedAt] = snap[r]
           /\ store[id[r]] # NoItem => store[id[r]] = resp[r].item
C7_Witness ==
    \E r \in Reqs :
        /\ Done(r)
        /\ body[r] = Body("object", EmptyKV, FALSE)
        /\ resp[r].status = 200
        /\ store[id[r]] = resp[r].item

\* C8: NotFound from the storage find, and NotFound from the storage update, are
\* both answered 404 "item not found"; after NotFound from find nothing is merged,
\* validated or updated.
NotFoundResponse == ErrorResponse(404, "item not found")
C8_NotFoundIs404 ==
    \A r \in Reqs :
        Done(r)
        => /\ found[r] = "notfound"
              => /\ resp[r] = NotFoundResponse
                 /\ ~Ran(r, "Merge") /\ ~Ran(r, "Validate") /\ ~Ran(r, "Persist")
                 /\ item[r] = NoItem /\ verrs[r] = <<>> /\ updated[r] = "none"
                 /\ StoreUntouched(r)
           /\ updated[r] = "notfound" => resp[r] = NotFoundResponse
C8_Witness ==
    \E r \in Reqs :
        /\ Done(r)
        /\ found[r] = "ok"
        /\ updated[r] = "notfound"
        /\ resp[r].status = 404

\* C9: a path identifier that is not a base-10 integer is answered 400 "invalid item
\* ID" before the body is read: no decode, no guard, no usecase, no storage access.
IsBase10Integer(s) ==
    /\ s # <<>>
    /\ IF s[1] \in {"+", "-"} THEN IsDigits(Tail(s)) ELSE IsDigits(s)
C9_InvalidIdBeforeBody ==
    \A r \in Reqs :
        (Done(r) /\ ~IsBase10Integer(path[r]))
        => /\ resp[r] = ErrorResponse(400, "invalid item ID")
           /\ log[r] = <<"ParseID", "Respond">>
           /\ req[r] = NoRequest
           /\ NoStorageCall(r)
           /\ StoreUntouched(r)
C9_Witness ==
    \E r \in Reqs :
        /\ Done(r)
        /\ path[r] = <<"1", "x">>
        /\ body[r].kind = "malformed"
        /\ resp[r].error = "invalid item ID"

\* C10: every body that is not a well-formed JSON object (array, string, number,
\* null, empty, object followed by garbage, malformed text), sent to a positive id,
\* is answered 400 "invalid request format", without find or update.
WellFormedObject(b) == b.kind = "object" /\ ~b.trailing
C10_NonObjectIsInvalidFormat ==
    \A r \in Reqs :
        (Done(r) /\ PositiveId(r) /\ ~WellFormedObject(body[r]))
        => /\ resp[r] = ErrorResponse(400, "invalid request format")
           /\ NoStorageCall(r)

\* C11: a 400 "validation failed" response carries only immutable-field messages or
\* only field-validation messages in details, and no other text, for every path id
\* that parses as an integer (zero and negative ids included).
ImmutableMessages == {immutableFields[k] : k \in DOMAIN immutableFields}
FieldMessages ==
    {MsgNameRequired, MsgNameTooLong, MsgBrandRequired, MsgBrandTooLong, MsgPriceTooLow}
C11_DetailsOnlyKnownMessages ==
    \A r \in Reqs :
        (Done(r) /\ PathOK(r) /\ resp[r].status = 400 /\ resp[r].error = "validation failed")
        => LET d == resp[r].details
           IN  /\ Len(d) > 0
               /\ \/ \A i \in 1..Len(d) : d[i] \in ImmutableMessages
                  \/ \A i \in 1..Len(d) : d[i] \in FieldMessages

\* C12: a failure of the storage find or update that is not NotFound is answered 500
\* with the fixed body "failed to update item": no details, no text of the
\* underlying error, never 400 or 404.
C12_StorageFailureIs500 ==
    \A r \in Reqs :
        (Done(r) /\ (found[r] = "error" \/ updated[r] = "error"))
        => /\ resp[r] = ErrorResponse(500, "failed to update item")
           /\ found[r] = "error" => updated[r] = "none" /\ StoreUntouched(r)
C12_Witness ==
    \E r \in Reqs :
        /\ Done(r)
        /\ found[r] = "ok"
        /\ updated[r] = "error"
        /\ resp[r].status = 500

\* C13: when field validation fails the storage update is not invoked and the stored
\* item is as before the request (name, brand, purchase_price and updated_at
\* included), although the in-memory entity already carries the present fields and
\* the new updated_at.
\* A present field of the typed request that breaks its rule
InvalidField(r) ==
    \/ req[r].Name # NilPtr /\ (req[r].Name.v.n = 0 \/ len(req[r].Name.v) > maxNameLength)
    \/ req[r].Brand # NilPtr /\ (req[r].Brand.v.n = 0 \/ len(req[r].Brand.v) > maxBrandLength)
    \/ req[r].PurchasePrice # NilPtr /\ req[r].PurchasePrice.v.hi = 0
       /\ req[r].PurchasePrice.v.lo < minPrice
C13_FailedValidationLeavesStore ==
    \A r \in Reqs :
        (Done(r) /\ found[r] = "ok" /\ InvalidField(r))
        => /\ resp[r].status = 400
           /\ resp[r].error = "validation failed"
           /\ updated[r] = "none"
           /\ ~Ran(r, "Persist")
           /\ StoreUntouched(r)
           /\ store[id[r]] # NoItem => store[id[r]].UpdatedAt = snap[r].UpdatedAt
           /\ item[r].UpdatedAt >= arrived[r]
           /\ item[r].UpdatedAt > snap[r].UpdatedAt
           /\ req[r].Name # NilPtr => item[r].Name = req[r].Name.v
           /\ req[r].Brand # NilPtr => item[r].Brand = req[r].Brand.v
           /\ req[r].PurchasePrice # NilPtr => item[r].PurchasePrice = req[r].PurchasePrice.v
C13_Witness ==
    \E r \in Reqs :
        /\ Done(r)
        /\ found[r] = "ok"
        /\ body[r].kv["name"] = JStr(ShortName)
        /\ body[r].kv["purchase_price"] = JNum(0, -100, FALSE)
        /\ item[r].Name = ShortName
        /\ store[id[r]] # NoItem
        /\ store[id[r]].Name = StoredName
        /\ resp[r].error = "validation failed"

\* C14: from a store whose items satisfy the field rules, after any interleaving of
\* PATCH requests every stored item has a non-empty name and brand
\* of at most 100 characters, a purchase_price >= 0, and the id and created_at it
\* started with.
ValidItem(it) ==
    /\ it.Name.n > 0 /\ RuneCount(it.Name) <= maxNameLength
    /\ it.Brand.n > 0 /\ RuneCount(it.Brand) <= maxBrandLength
    /\ ~IntLess(it.PurchasePrice, IntV(minPrice))
C14_StoredItemsStayValid ==
    \A i \in ItemIds :
        store[i] # NoItem
        => /\ ValidItem(store[i])
           /\ store[i].ID = i
           /\ InitialStore[i] # NoItem
           /\ store[i].CreatedAt = InitialStore[i].CreatedAt
C14_Witness ==
    \E r1, r2 \in Reqs :
        /\ r1 # r2
        /\ Done(r1) /\ Done(r2)
        /\ resp[r1].status = 200
        /\ resp[r2].status = 400
        /\ req[r2].PurchasePrice = Ptr(IntV(-100))
        /\ found[r2] = "ok"
        /\ store[1] # NoItem
        /\ store[1].Name = ShortName

\* C15: the stages run in the order Decode, Guard, Fetch, Merge, Validate, Persist,
\* Respond and the first failing stage decides the response: (a) a protected key on
\* a nonexistent id is 400 (guard before fetch), (b) an invalid mutable field on a
\* nonexistent id is 404 (fetch before validate), (c) a protected key together with
\* a wrongly typed mutable field is 400 "invalid request format", decided at Decode
\* before the guard runs.
StageOrder ==
    <<"ParseID", "Decode", "Guard", "Bind", "Usecase", "Fetch", "Merge", "Validate",
      "Persist">>
\* the stages of a finished request are an initial part of StageOrder, then Respond
RanInOrder(r) ==
    \E n \in 1..Len(StageOrder) : log[r] = SubSeq(StageOrder, 1, n) \o <<"Respond">>
\* a name, brand or purchase_price member whose JSON type does not fit its field
WrongTyped(r) ==
    \/ body[r].kv["name"].t = "num"
    \/ body[r].kv["brand"].t = "num"
    \/ body[r].kv["purchase_price"].t = "str"
    \/ (body[r].kv["purchase_price"].t = "num" /\ body[r].kv["purchase_price"].half)
GuardBeforeFetch(r) ==
    (PositiveId(r) /\ WellFormedObject(body[r]) /\ HasProtected(r) /\ before[r][id[r]] = NoItem)
    => /\ resp[r].status = 400
       /\ resp[r].error = "validation failed"
       /\ found[r] = "none"
FetchBeforeValidate(r) ==
    (found[r] = "notfound" /\ InvalidField(r))
    => /\ resp[r] = NotFoundResponse
       /\ verrs[r] = <<>>
       /\ ~Ran(r, "Validate")
C15_WrongTypeFailsAtDecode ==
    \A r \in Reqs :
        Done(r)
        => /\ RanInOrder(r)
           /\ GuardBeforeFetch(r)
           /\ FetchBeforeValidate(r)
           /\ (PositiveId(r) /\ WellFormedObject(body[r]) /\ HasProtected(r) /\ WrongTyped(r))
              => /\ resp[r] = ErrorResponse(400, "invalid request format")
                 /\ ~Ran(r, "Guard")
\* C15 (amended): as above, except that (c) is decided by the guard: the first
\* decode is into an untyped map, so the response is 400 "validation failed" with
\* the immutable-field messages, and the typed decode is not reached.
C15_StagesDecideInOrder ==
    \A r \in Reqs :
        Done(r)
        => /\ RanInOrder(r)
           /\ GuardBeforeFetch(r)
           /\ FetchBeforeValidate(r)
           /\ (PositiveId(r) /\ WellFormedObject(body[r]) /\ HasProtected(r) /\ WrongTyped(r))
              => /\ resp[r].status = 400
                 /\ resp[r].error = "validation failed"
                 /\ \A i \in 1..Len(resp[r].details) : resp[r].details[i] \in ImmutableMessages
                 /\ Ran(r, "Guard")
                 /\ ~Ran(r, "Bind")
           /\ (PositiveId(r) /\ WellFormedObject(body[r]) /\ ~HasProtected(r) /\ WrongTyped(r))
              => /\ resp[r] = ErrorResponse(400, "invalid request format")
                 /\ Ran(r, "Bind")
                 /\ NoStorageCall(r)
C15_Witness ==
    \E r \in Reqs :
        /\ Done(r)
        /\ path[r] = <<"2">>
        /\ body[r].kv[fieldCreatedAt] # Absent
        /\ body[r].kv["purchase_price"] = JStr(ShortName)
        /\ resp[r].error = "validation failed"
        /\ log[r] = <<"ParseID", "Decode", "Guard", "Respond">>

\* C16: validation is keyed on presence in the payload: a field absent from the
\* request is not validated and gives no message even where its stored value breaks
\* the rule (an empty stored name); a field present is validated even where it
\* equals the stored value.
NameMessages == {MsgNameRequired, MsgNameTooLong}
BrandMessages == {MsgBrandRequired, MsgBrandTooLong}
Mentions(r, msgs) == \E i \in 1..Len(verrs[r]) : verrs[r][i] \in msgs
C16_ValidationKeyedOnPresence ==
    \A r \in Reqs :
        (Done(r) /\ found[r] = "ok")
        => /\ req[r].Name = NilPtr => ~Mentions(r, NameMessages)
           /\ req[r].Brand = NilPtr => ~Mentions(r, BrandMessages)
           /\ req[r].PurchasePrice = NilPtr => ~Mentions(r, {MsgPriceTooLow})
           /\ ~InvalidField(r) => verrs[r] = <<>> /\ Ran(r, "Persist")
           /\ (~InvalidField(r) /\ updated[r] = "ok")
              => /\ resp[r].status = 200
                 /\ req[r].Name = NilPtr => resp[r].item.Name = snap[r].Name
                 /\ req[r].PurchasePrice = NilPtr
                    => resp[r].item.PurchasePrice = snap[r].PurchasePrice
           /\ (req[r].Name = Ptr(snap[r].Name) /\ snap[r].Name = EmptyStr)
              => verrs[r][1] = MsgNameRequired /\ resp[r].status = 400
C16_Witness ==
    \E r \in Reqs :
        /\ Done(r)
        /\ body[r].kv["name"] = Absent
        /\ body[r].kv["brand"] = Absent
        /\ body[r].kv["purchase_price"] = JNum(0, 2000, FALSE)
        /\ snap[r] # NoItem
        /\ snap[r].Name = EmptyStr
        /\ resp[r].status = 200
        /\ resp[r].item.Name = EmptyStr
        /\ resp[r].item.PurchasePrice = IntV(2000)

\* C17: a mutable field is present whenever its key is in the body, whatever the
\* value: "" for name or brand, 0 for purchase_price, and null for any of the three
\* are merged and validated (an empty name gives 'name is required', price 0 is
\* stored as 0), never taken as 'no change'.
KeyPresent(r, k) == body[r].kv[k] # Absent
C17_PresenceIndependentOfValue ==
    \A r \in Reqs :
        (Done(r) /\ PositiveId(r) /\ WellFormedObject(body[r]) /\ ~HasProtected(r)
            /\ ~WrongTyped(r) /\ found[r] = "ok")
        => /\ KeyPresent(r, "name") => req[r].Name # NilPtr
           /\ KeyPresent(r, "brand") => req[r].Brand # NilPtr
           /\ KeyPresent(r, "purchase_price") => req[r].PurchasePrice # NilPtr
           /\ body[r].kv["name"] = JStr(EmptyStr) => Mentions(r, {MsgNameRequired})
           /\ body[r].kv["brand"] = JStr(EmptyStr) => Mentions(r, {MsgBrandRequired})
           /\ body[r].kv["purchase_price"] = JNum(0, 0, FALSE)
              => /\ item[r].PurchasePrice = IntV(0)
                 /\ updated[r] = "ok" => resp[r].item.PurchasePrice = IntV(0)

\* C18: two PATCH requests with valid payloads on the same existing id that both
\* fetch before either persists are both answered 200 without any conflict being
\* detected, and the stored item is entirely the merged entity of the request whose
\* update ran last: a field only the earlier writer changed is back at the value of
\* the later writer's snapshot.
Raced(r1, r2) ==
    /\ r1 # r2
    /\ Done(r1) /\ Done(r2)
    /\ id[r1] = id[r2]
    /\ found[r1] = "ok" /\ found[r2] = "ok"
    /\ snap[r1] = snap[r2]
    /\ verrs[r1] = <<>> /\ verrs[r2] = <<>>
    /\ updated[r1] = "ok" /\ updated[r2] = "ok"
C18_LastWriteWins ==
    /\ \A r \in Reqs : updated[r] \in {"none", "ok", "error"}
    /\ \A r1, r2 \in Reqs :
        Raced(r1, r2)
        => LET i == id[r1]
               w == lastWrite[i]
           IN  /\ resp[r1] = Response(200, "", <<>>, item[r1])
               /\ resp[r2] = Response(200, "", <<>>, item[r2])
               /\ w \in Reqs
               /\ updated[w] = "ok"
               /\ store[i] = item[w]
               /\ req[w].Name = NilPtr => store[i].Name = snap[w].Name
               /\ req[w].Brand = NilPtr => store[i].Brand = snap[w].Brand
               /\ req[w].PurchasePrice = NilPtr
                  => store[i].PurchasePrice = snap[w].PurchasePrice
C18_Witness ==
    \E r1, r2 \in Reqs :
        /\ Raced(r1, r2)
        /\ req[r1] = UpdateItemRequest(Ptr(ShortName), NilPtr, NilPtr)
        /\ req[r2] = UpdateItemRequest(NilPtr, NilPtr, Ptr(IntV(2000)))
        /\ lastWrite[1] = r2
        /\ resp[r1].item.Name = ShortName
        /\ store[1].Name = StoredName
        /\ store[1].PurchasePrice = IntV(2000)

\* C19: a PATCH request makes at most one storage find and at most one storage
\* update, retries neither, calls update only after a successful find and a
\* validation without violations, and reaches exactly one response.
OneFindOneUpdate(r) ==
    /\ Times(r, "Fetch") <= 1
    /\ Times(r, "Persist") <= 1
    /\ Times(r, "Respond") <= 1
    /\ Ran(r, "Fetch") <=> found[r] # "none"
    /\ Ran(r, "Persist") <=> updated[r] # "none"
    /\ (pc[r] = "update" \/ Ran(r, "Persist"))
       => /\ found[r] = "ok"
          /\ Times(r, "Fetch") = 1
          /\ Times(r, "Validate") = 1
          /\ verrs[r] = <<>>
          /\ ~InvalidField(r)
    /\ found[r] \in {"notfound", "error"} => updated[r] = "none"
    /\ Done(r) <=> resp[r] # NoResponse
    /\ Done(r) => Times(r, "Respond") = 1 /\ log[r][Len(log[r])] = "Respond"
C19_OneFindOneUpdateOneResponse ==
    /\ [](\A r \in Reqs : OneFindOneUpdate(r))
    /\ [][\A r \in Reqs : resp[r] # NoResponse => resp'[r] = resp[r] /\ log'[r] = log[r]]_vars
    /\ \A r \in Reqs : (pc[r] = "handler") ~> Done(r)
C19_Witness ==
    \E r \in Reqs :
        /\ Done(r)
        /\ Times(r, "Fetch") = 1
        /\ Times(r, "Persist") = 1
        /\ Times(r, "Respond") = 1
        /\ updated[r] = "error"
        /\ resp[r].status = 500
====
